---- MODULE Spec2Model ----
(***************************************************************************)
(* Model of src/naif/spk/datatypes/hermite.rs: the Hermite Type 12 and     *)
(* Type 13 SPK data sets (HermiteSetType12, HermiteSetType13).             *)
(*                                                                         *)
(* An f64 is modelled as an integer-valued double; NaN and PosInf are the  *)
(* two non-finite values.  A borrowed sub-slice &slice[lo..hi] is the      *)
(* view [lo |-> lo, hi |-> hi] into the one source buffer `slice`.         *)
(* usize arithmetic is kept modulo 2^UsizeBits; an overflow aborts when    *)
(* the build has overflow checks on and wraps when it has them off.        *)
(***************************************************************************)
EXTENDS Integers, Sequences, FiniteSets, TLC

VARIABLES overflow_checks, slice, set12, set13, result

vars == <<overflow_checks, slice, set12, set13, result>>

----------------------------------------------------------------------------
(* Bounds of the model *)

\* records and registry values of the well-formed buffers
MaxRecords == 4
MaxRegistry == 1
\* width of the model's usize; the finite values of the buffers are far
\* below 2^UsizeBits, so only PosInf saturates the cast, at any width
UsizeBits == 20

----------------------------------------------------------------------------
(* f64 values *)

NaN == -999999
PosInf == 999999

is_finite(v) == v # NaN /\ v # PosInf

\* f64 `<` and `>`: false as soon as one side is NaN
Lt(a, b) == a # NaN /\ b # NaN /\ a < b
Gt(a, b) == Lt(b, a)

\* f64::partial_cmp
partial_cmp(a, b) ==
    IF a = NaN \/ b = NaN THEN "None"
    ELSE IF a < b THEN "Less"
    ELSE IF a > b THEN "Greater"
    ELSE "Equal"

USIZE_MOD == 2 ^ UsizeBits
USIZE_MAX == USIZE_MOD - 1

\* `v as usize`: NaN and negatives give 0, values too large saturate
as_usize(v) ==
    IF v = NaN THEN 0
    ELSE IF v = PosInf THEN USIZE_MAX
    ELSE IF v < 0 THEN 0
    ELSE IF v > USIZE_MAX THEN USIZE_MAX
    ELSE v

saturating_sub(a, b) == IF a >= b THEN a - b ELSE 0

min(a, b) == IF a <= b THEN a ELSE b

----------------------------------------------------------------------------
(* Results, errors, views *)

MalformedData(n) == [kind |-> "MalformedData", n |-> n]
SubNormal == [kind |-> "IntegrityError", n |-> 0]
MissingInterpolationData(t) == [kind |-> "MissingInterpolationData", n |-> t]
MathError == [kind |-> "MathError", n |-> 0]

Err(e) == [tag |-> "Err", err |-> e]
Panic(why) == [tag |-> "Panic", why |-> why]
None == [tag |-> "None"]

\* slice.get(lo..hi) on a slice of length len: None when out of bounds
Get(len, lo, hi) ==
    IF lo <= hi /\ hi <= len THEN [tag |-> "Some", lo |-> lo, hi |-> hi]
    ELSE None

ViewLen(v) == v.hi - v.lo

\* the values a view borrows
Values(v) == [i \in 1..ViewLen(v) |-> slice[v.lo + i]]

\* view.get(lo..hi) relative to the view
SubGet(v, lo, hi) ==
    IF lo <= hi /\ hi <= ViewLen(v)
    THEN [tag |-> "Some", lo |-> v.lo + lo, hi |-> v.lo + hi]
    ELSE None

----------------------------------------------------------------------------
(* Collaborators outside the file *)

\* PositionVelocityRecord::SIZE / DBL_SIZE: the number of doubles of a record
STRIDE == 6

\* Capacity of the statically allocated interpolation arrays
MAX_SAMPLES == 32

\* PositionVelocityRecord::from_slice_f64: the six fields are read from the
\* first six doubles of the borrowed span; a shorter span cannot be indexed
PositionVelocityRecord_from_slice_f64(v) ==
    IF ViewLen(v) < STRIDE THEN Panic("record index out of bounds")
    ELSE [tag |-> "Ok", record |-> [i \in 1..STRIDE |-> slice[v.lo + i]]]

\* hermite_eval(xs, ys, ydots, x_eval): the polynomial arithmetic is left
\* uninterpreted (the value is the call itself); it fails on no samples and
\* on two equal abscissas
hermite_eval(xs, ys, ydots, x_eval) ==
    IF Len(xs) = 0 \/ \E i, j \in 1..Len(xs) : i < j /\ xs[i] = xs[j]
    THEN Err(MathError)
    ELSE [tag |-> "Ok",
          value |-> [xs |-> xs, ys |-> ys, ydots |-> ydots, x_eval |-> x_eval]]

----------------------------------------------------------------------------
(* HermiteSetType12 *)

HermiteSetType12_from_slice_f64(s) ==
    LET L == Len(s) IN
    IF L < 5 THEN Err(MalformedData(5))
    ELSE IF ~is_finite(s[L - 3]) THEN Err(SubNormal)
    ELSE IF ~is_finite(s[L - 2]) THEN Err(SubNormal)
    ELSE [tag |-> "Ok",
          first_state_epoch |-> s[L - 3],
          step_size |-> s[L - 2],
          window_size |-> as_usize(s[L - 1]),
          num_records |-> as_usize(s[L]),
          record_data |-> [tag |-> "Some", lo |-> 0, hi |-> L - 4]]

\* nth_record of either set: `data` is record_data (Type 12) or state_data
\* (Type 13)
nth_record(data, num_records, n) ==
    IF num_records = 0 THEN Panic("attempt to divide by zero")
    ELSE
        LET rcrd_len == ViewLen(data) \div num_records
            got == SubGet(data, n * rcrd_len, (n + 1) * rcrd_len)
        IN  IF got.tag = "None" THEN Err(MalformedData((n + 1) * rcrd_len))
            ELSE PositionVelocityRecord_from_slice_f64(got)

HermiteSetType12_nth_record(set, n) == nth_record(set.record_data, set.num_records, n)

HermiteSetType12_evaluate(set, epoch) == Panic("not yet implemented")

RECURSIVE ScanFinite(_, _)
\* `for val in data { if !val.is_finite() { return Err } }` over the values
\* vals from position i on: the number of values read, and whether all of
\* them were finite
ScanFinite(vals, i) ==
    IF i > Len(vals) THEN [ok |-> TRUE, read |-> i - 1]
    ELSE IF ~is_finite(vals[i]) THEN [ok |-> FALSE, read |-> i]
    ELSE ScanFinite(vals, i + 1)

HermiteSetType12_check_integrity(set) ==
    LET a == ScanFinite(Values(set.record_data), 1) IN
    IF ~a.ok THEN [tag |-> "Err", err |-> SubNormal, read |-> <<a.read>>]
    ELSE [tag |-> "Ok", read |-> <<a.read>>]

----------------------------------------------------------------------------
(* HermiteSetType13 *)

HermiteSetType13_degree(set, checks) ==
    LET prod == 2 * set.samples
        diff == (prod % USIZE_MOD) - 1
    IN  IF checks /\ prod > USIZE_MAX
        THEN Panic("attempt to multiply with overflow")
        ELSE IF checks /\ diff < 0
        THEN Panic("attempt to subtract with overflow")
        ELSE [tag |-> "Ok", degree |-> diff % USIZE_MOD]

HermiteSetType13_from_slice_f64(s, checks) ==
    LET L == Len(s) IN
    IF L < 3 THEN Err(MalformedData(5))
    ELSE
        LET num_records == as_usize(s[L])
            samples_sum == as_usize(s[L - 1]) + 1
            samples == samples_sum % USIZE_MOD
            state_prod == STRIDE * num_records
            state_data_end_idx == state_prod % USIZE_MOD
            state_data == Get(L, 0, state_data_end_idx)
            epoch_sum == state_data_end_idx + num_records
            epoch_data_end_idx == epoch_sum % USIZE_MOD
            epoch_data == Get(L, state_data_end_idx, epoch_data_end_idx)
            epoch_registry == Get(L, epoch_data_end_idx, L - 2)
        IN  IF checks /\ samples_sum > USIZE_MAX
            THEN Panic("attempt to add with overflow")
            ELSE IF checks /\ state_prod > USIZE_MAX
            THEN Panic("attempt to multiply with overflow")
            ELSE IF state_data.tag = "None"
            THEN Panic("unwrap on None")
            ELSE IF checks /\ epoch_sum > USIZE_MAX
            THEN Panic("attempt to add with overflow")
            ELSE IF epoch_data.tag = "None"
            THEN Panic("unwrap on None")
            ELSE IF epoch_registry.tag = "None"
            THEN Panic("unwrap on None")
            ELSE [tag |-> "Ok",
                  samples |-> samples,
                  num_records |-> num_records,
                  state_data |-> state_data,
                  epoch_data |-> epoch_data,
                  epoch_registry |-> epoch_registry]

HermiteSetType13_nth_record(set, n) == nth_record(set.state_data, set.num_records, n)

\* the integrity check with the scan of the epoch registry left out
check_integrity_skipping_registry(set) ==
    LET a == ScanFinite(Values(set.epoch_data), 1)
        c == ScanFinite(Values(set.state_data), 1)
    IN  IF ~a.ok THEN [tag |-> "Err", err |-> SubNormal, read |-> <<a.read, 0, 0>>]
        ELSE IF ~c.ok
        THEN [tag |-> "Err", err |-> SubNormal, read |-> <<a.read, 0, c.read>>]
        ELSE [tag |-> "Ok", read |-> <<a.read, 0, c.read>>]

HermiteSetType13_check_integrity(set) ==
    LET a == ScanFinite(Values(set.epoch_data), 1)
        b == ScanFinite(Values(set.epoch_registry), 1)
        c == ScanFinite(Values(set.state_data), 1)
    IN  IF ~a.ok THEN [tag |-> "Err", err |-> SubNormal, read |-> <<a.read, 0, 0>>]
        ELSE IF ~b.ok
        THEN [tag |-> "Err", err |-> SubNormal, read |-> <<a.read, b.read, 0>>]
        ELSE IF ~c.ok
        THEN [tag |-> "Err", err |-> SubNormal, read |-> <<a.read, b.read, c.read>>]
        ELSE [tag |-> "Ok", read |-> <<a.read, b.read, c.read>>]

RECURSIVE binary_search_by_no_hit(_, _, _, _)
\* the search with an equal element taken for a greater one: it never
\* reports a hit
binary_search_by_no_hit(vals, target, left, right) ==
    IF left >= right THEN [tag |-> "Err", idx |-> left]
    ELSE
        LET mid == left + ((right - left) \div 2)
            cmp == partial_cmp(vals[mid + 1], target)
        IN  IF cmp = "None" THEN Panic("epochs in Hermite data is now NaN")
            ELSE IF cmp = "Less"
            THEN binary_search_by_no_hit(vals, target, mid + 1, right)
            ELSE binary_search_by_no_hit(vals, target, left, mid)

RECURSIVE binary_search_by(_, _, _, _)
\* epoch_data.binary_search_by(|epoch_et| epoch_et.partial_cmp(&target)
\* .expect(..)) on the half-open index range left..right
binary_search_by(vals, target, left, right) ==
    IF left >= right THEN [tag |-> "Err", idx |-> left]
    ELSE
        LET mid == left + ((right - left) \div 2)
            cmp == partial_cmp(vals[mid + 1], target)
        IN  IF cmp = "None" THEN Panic("epochs in Hermite data is now NaN")
            ELSE IF cmp = "Less" THEN binary_search_by(vals, target, mid + 1, right)
            ELSE IF cmp = "Greater" THEN binary_search_by(vals, target, left, mid)
            ELSE [tag |-> "Ok", idx |-> mid]

NoWindow == [computed |-> FALSE, idx |-> 0, first_idx |-> 0, last_idx |-> 0]

\* `[0.0; MAX_SAMPLES]` for the epochs, and for xs, ys, zs, vxs, vys, vzs
\* (kept together as one row of six per slot)
ZeroRow == [i \in 1..STRIDE |-> 0]
ZeroScratch ==
    [tag |-> "Ok",
     epochs |-> [i \in 1..MAX_SAMPLES |-> 0],
     rows |-> [i \in 1..MAX_SAMPLES |-> ZeroRow]]

RECURSIVE Gather(_, _, _, _, _)
\* `for (cno, idx) in (first_idx..last_idx).enumerate()`: the scratch arrays
\* after the loop, or the error or abort that ended it
Gather(set, idx, last_idx, cno, scratch) ==
    IF idx >= last_idx THEN scratch
    ELSE
        LET record == HermiteSetType13_nth_record(set, idx) IN
        IF record.tag # "Ok" THEN record
        ELSE IF cno >= MAX_SAMPLES THEN Panic("index out of bounds")
        ELSE IF idx >= ViewLen(set.epoch_data) THEN Panic("index out of bounds")
        ELSE Gather(set, idx + 1, last_idx, cno + 1,
                    [tag |-> "Ok",
                     epochs |-> [scratch.epochs EXCEPT
                                    ![cno + 1] = slice[set.epoch_data.lo + idx + 1]],
                     rows |-> [scratch.rows EXCEPT ![cno + 1] = record.record]])

Column(rows, n, f) == [i \in 1..n |-> rows[i][f]]

\* The window of the Err(idx) branch: first_idx and last_idx as the loop
\* receives them, or the abort of the subtraction
Window(set, idx, checks) ==
    LET num_left == set.samples \div 2
        first_idx0 == saturating_sub(idx, num_left)
        sum == first_idx0 + set.samples
        last_idx == min(set.num_records, sum % USIZE_MOD)
        diff == last_idx - 2 * num_left
        first_idx == IF last_idx = set.num_records
                     THEN (IF diff < 0 THEN diff + USIZE_MOD ELSE diff)
                     ELSE first_idx0
    IN  IF checks /\ sum > USIZE_MAX THEN Panic("attempt to add with overflow")
        ELSE IF checks /\ last_idx = set.num_records /\ diff < 0
        THEN Panic("attempt to subtract with overflow")
        ELSE [tag |-> "Ok", computed |-> TRUE, idx |-> idx,
              first_idx |-> first_idx, last_idx |-> last_idx]

\* The Err(idx) branch of evaluate
Interpolate(set, time, idx, checks) ==
    LET trace == <<"range_check", "binary_search", "window">>
        w == Window(set, idx, checks)
    IN
    IF w.tag = "Panic"
    THEN [tag |-> "Panic", why |-> w.why, trace |-> trace,
          window |-> [NoWindow EXCEPT !.idx = idx]]
    ELSE
        LET win == [computed |-> TRUE, idx |-> idx,
                    first_idx |-> w.first_idx, last_idx |-> w.last_idx]
            g == Gather(set, w.first_idx, w.last_idx, 0, ZeroScratch)
            s == set.samples
        IN
        IF g.tag = "Panic"
        THEN [tag |-> "Panic", why |-> g.why, trace |-> trace \o <<"gather">>,
              window |-> win]
        ELSE IF g.tag = "Err"
        THEN [tag |-> "Err", err |-> g.err, trace |-> trace \o <<"gather">>,
              window |-> win]
        ELSE IF s > MAX_SAMPLES
        THEN [tag |-> "Panic", why |-> "range end index out of range",
              trace |-> trace \o <<"gather">>, window |-> win]
        ELSE
            LET epochs == SubSeq(g.epochs, 1, s)
                x == hermite_eval(epochs, Column(g.rows, s, 1), Column(g.rows, s, 4), time)
                y == hermite_eval(epochs, Column(g.rows, s, 2), Column(g.rows, s, 5), time)
                z == hermite_eval(epochs, Column(g.rows, s, 3), Column(g.rows, s, 6), time)
                tr == trace \o <<"gather", "hermite_eval">>
            IN  IF x.tag = "Err"
                THEN [tag |-> "Err", err |-> x.err, trace |-> tr, window |-> win]
                ELSE IF y.tag = "Err"
                THEN [tag |-> "Err", err |-> y.err, trace |-> tr, window |-> win]
                ELSE IF z.tag = "Err"
                THEN [tag |-> "Err", err |-> z.err, trace |-> tr, window |-> win]
                ELSE [tag |-> "Ok", exact |-> FALSE, trace |-> tr, window |-> win,
                      epochs |-> epochs,
                      pos_km |-> <<x.value, y.value, z.value>>]

\* the range check with its upper half forgotten
OutOfRangeLowerOnly(epoch_data, time) == Lt(time, epoch_data[1])

\* The range check that opens evaluate
OutOfRange(epoch_data, time) ==
    Lt(time, epoch_data[1]) \/ Gt(time, epoch_data[Len(epoch_data)])

HermiteSetType13_evaluate(set, time, checks) ==
    LET epoch_data == Values(set.epoch_data)
        n == Len(epoch_data)
    IN
    IF n = 0
    THEN [tag |-> "Panic", why |-> "index out of bounds", trace |-> <<>>,
          window |-> NoWindow]
    ELSE IF OutOfRange(epoch_data, time)
    THEN [tag |-> "Err", err |-> MissingInterpolationData(time),
          trace |-> <<"range_check">>, window |-> NoWindow]
    ELSE
        LET found == binary_search_by(epoch_data, time, 0, n)
            trace == <<"range_check", "binary_search">>
        IN
        IF found.tag = "Panic"
        THEN [tag |-> "Panic", why |-> found.why, trace |-> trace,
              window |-> NoWindow]
        ELSE IF found.tag = "Ok"
        THEN
            LET record == HermiteSetType13_nth_record(set, found.idx)
                tr == trace \o <<"nth_record">>
            IN  IF record.tag = "Panic"
                THEN [tag |-> "Panic", why |-> record.why, trace |-> tr,
                      window |-> NoWindow]
                ELSE IF record.tag = "Err"
                THEN [tag |-> "Err", err |-> record.err, trace |-> tr,
                      window |-> NoWindow]
                ELSE [tag |-> "Ok", exact |-> TRUE, trace |-> tr,
                      window |-> NoWindow, idx |-> found.idx,
                      pos_vel |-> record.record]
        ELSE Interpolate(set, time, found.idx, checks)

----------------------------------------------------------------------------
(* The buffers the data sets are built from *)

StateValue(k, f) == 100 + 10 * k + f
EpochValue(k) == 2 * k
RegistryValue(j) == 50 + j

\* n0 records, their n0 epochs in ascending order, r registry values
BaseData(n0, r) ==
    [p \in 1..(STRIDE * n0 + n0 + r) |->
        IF p <= STRIDE * n0
        THEN StateValue((p - 1) \div STRIDE, ((p - 1) % STRIDE) + 1)
        ELSE IF p <= STRIDE * n0 + n0 THEN EpochValue(p - STRIDE * n0 - 1)
        ELSE RegistryValue(p - STRIDE * n0 - n0)]

WindowSlot == {NaN, PosInf, -1, MAX_SAMPLES} \cup (0..MaxRecords)
CountSlot == {NaN, PosInf, -1} \cup (0..(MaxRecords + 1))
PokeValues == {NaN, PosInf, 0}

Buffer(n0, r, w, c) == BaseData(n0, r) \o <<w, c>>

Buffers ==
    {<<>>}
    \cup { <<v>> : v \in PokeValues }
    \cup { Buffer(n0, r, w, c) :
             n0 \in 0..MaxRecords, r \in 0..MaxRegistry,
             w \in WindowSlot, c \in CountSlot }
    \cup UNION { { [Buffer(n0, r, w, n0) EXCEPT ![p] = v] :
                     p \in 1..(STRIDE * n0 + n0 + r), v \in PokeValues } :
                 n0 \in 1..MaxRecords, r \in 0..MaxRegistry, w \in WindowSlot }

Indices == 0..(MaxRecords + 1)
Times == -1..(2 * MaxRecords)

----------------------------------------------------------------------------
(* The state machine *)

Init ==
    /\ overflow_checks \in BOOLEAN
    /\ slice \in Buffers
    /\ set12 = None
    /\ set13 = None
    /\ result = [op |-> "none"]

Construct12 ==
    /\ set12 = None /\ set13 = None
    /\ set12' = HermiteSetType12_from_slice_f64(slice)
    /\ UNCHANGED <<overflow_checks, slice, set13, result>>

Construct13 ==
    /\ set12 = None /\ set13 = None
    /\ set13' = HermiteSetType13_from_slice_f64(slice, overflow_checks)
    /\ UNCHANGED <<overflow_checks, slice, set12, result>>

CallNthRecord12 ==
    /\ set12.tag = "Ok"
    /\ \E n \in Indices :
         result' = [op |-> "nth_record12", n |-> n, out |-> HermiteSetType12_nth_record(set12, n)]
    /\ UNCHANGED <<overflow_checks, slice, set12, set13>>

CallEvaluate12 ==
    /\ set12.tag = "Ok"
    /\ \E t \in Times :
         result' = [op |-> "evaluate12", time |-> t, out |-> HermiteSetType12_evaluate(set12, t)]
    /\ UNCHANGED <<overflow_checks, slice, set12, set13>>

CallCheckIntegrity12 ==
    /\ set12.tag = "Ok"
    /\ result' = [op |-> "check_integrity12", out |-> HermiteSetType12_check_integrity(set12)]
    /\ UNCHANGED <<overflow_checks, slice, set12, set13>>

CallDegree ==
    /\ set13.tag = "Ok"
    /\ result' = [op |-> "degree", out |-> HermiteSetType13_degree(set13, overflow_checks)]
    /\ UNCHANGED <<overflow_checks, slice, set12, set13>>

CallNthRecord13 ==
    /\ set13.tag = "Ok"
    /\ \E n \in Indices :
         result' = [op |-> "nth_record13", n |-> n, out |-> HermiteSetType13_nth_record(set13, n)]
    /\ UNCHANGED <<overflow_checks, slice, set12, set13>>

CallEvaluate13 ==
    /\ set13.tag = "Ok"
    /\ \E t \in Times :
         result' = [op |-> "evaluate13", time |-> t,
                    out |-> HermiteSetType13_evaluate(set13, t, overflow_checks)]
    /\ UNCHANGED <<overflow_checks, slice, set12, set13>>

CallCheckIntegrity13 ==
    /\ set13.tag = "Ok"
    /\ result' = [op |-> "check_integrity13", out |-> HermiteSetType13_check_integrity(set13)]
    /\ UNCHANGED <<overflow_checks, slice, set12, set13>>

Next ==
    \/ Construct12
    \/ Construct13
    \/ CallNthRecord12
    \/ CallEvaluate12
    \/ CallCheckIntegrity12
    \/ CallDegree
    \/ CallNthRecord13
    \/ CallEvaluate13
    \/ CallCheckIntegrity13

Spec == Init /\ [][Next]_vars

----------------------------------------------------------------------------
(* Vocabulary of the properties *)

Built12 == set12.tag = "Ok"
Built13 == set13.tag = "Ok"

Epochs13 == Values(set13.epoch_data)

\* strictly ascending, as the format requires of the epochs
Ascending(vals) ==
    \A i \in 1..(Len(vals) - 1) :
        vals[i] # NaN /\ vals[i + 1] # NaN /\ vals[i] < vals[i + 1]

Evaluated13 == Built13 /\ result.op = "evaluate13"

\* evaluate took the Err(idx) branch of the binary search
Missed ==
    /\ Evaluated13
    /\ Len(result.out.trace) >= 3
    /\ result.out.trace[3] = "window"

NonFinite(v) == v \in {NaN, PosInf}

AllFinite(vals) == \A i \in 1..Len(vals) : ~NonFinite(vals[i])

FirstNonFinite(vals) ==
    CHOOSE i \in 1..Len(vals) :
        NonFinite(vals[i]) /\ \A j \in 1..(i - 1) : ~NonFinite(vals[j])

\* the record at index k of a view whose records are `stride` values apart
StoredRecord(data, stride, k) ==
    [f \in 1..STRIDE |-> slice[data.lo + k * stride + f]]

----------------------------------------------------------------------------
(* Properties *)

\* C1: on a miss with insertion index 1 <= i <= n-1 and 1 <= s <= n, the
\* window [first_idx, last_idx) gathered for the interpolation has exactly s
\* consecutive record indices within 0..n-1, so every one of the s slots
\* handed to the Hermite evaluator was filled from a stored record.
C1_WindowHasExactlySamples ==
    (/\ Missed
     /\ 1 <= set13.samples /\ set13.samples <= set13.num_records
     /\ 1 <= result.out.window.idx
     /\ result.out.window.idx <= set13.num_records - 1)
    => (/\ result.out.window.computed
        /\ result.out.window.last_idx - result.out.window.first_idx = set13.samples
        /\ 0 <= result.out.window.first_idx
        /\ result.out.window.last_idx <= set13.num_records)

\* C2: with strictly ascending epochs, evaluating at the stored epoch of
\* index k takes the exact-match branch and returns exactly the six values of
\* record k, without building a window or calling the Hermite evaluator.
C2_ExactHitReturnsRecord ==
    (/\ Evaluated13
     /\ Len(Epochs13) >= 1
     /\ Ascending(Epochs13))
    => \A k \in 0..(Len(Epochs13) - 1) :
          Epochs13[k + 1] = result.time
          => (/\ result.out.tag = "Ok"
              /\ result.out.exact
              /\ result.out.idx = k
              /\ result.out.pos_vel = StoredRecord(set13.state_data, STRIDE, k)
              /\ result.out.trace = <<"range_check", "binary_search", "nth_record">>)

C2_Witness ==
    /\ Evaluated13
    /\ Len(Epochs13) >= 3
    /\ Ascending(Epochs13)
    /\ result.out.tag = "Ok"
    /\ result.out.exact
    /\ result.out.idx = 1
    /\ Epochs13[2] = result.time

\* C3 as stated: a query time strictly earlier than the first stored epoch
\* or strictly later than the last is refused with the
\* missing-interpolation-data error carrying that time, before any search,
\* record access or evaluator call; a time equal to the first or the last
\* stored epoch is not refused.
C3_RangeCheckAsStated ==
    (Evaluated13 /\ Len(Epochs13) >= 1)
    => LET first == Epochs13[1]
           last == Epochs13[Len(Epochs13)]
           t == result.time
       IN  /\ ((first # NaN /\ t < first) \/ (last # NaN /\ t > last))
              => (/\ result.out.tag = "Err"
                  /\ result.out.err = MissingInterpolationData(t)
                  /\ result.out.trace = <<"range_check">>)
           /\ (t = first \/ t = last)
              => ~(/\ result.out.tag = "Err"
                   /\ result.out.err.kind = "MissingInterpolationData")

\* C3 amended: as above, but a time equal to the first or the last stored
\* epoch is not refused provided the first stored epoch is not later than
\* the last one (with the endpoints out of order such a time is refused).
C3_RangeCheck ==
    (Evaluated13 /\ Len(Epochs13) >= 1)
    => LET first == Epochs13[1]
           last == Epochs13[Len(Epochs13)]
           t == result.time
       IN  /\ ((first # NaN /\ t < first) \/ (last # NaN /\ t > last))
              => (/\ result.out.tag = "Err"
                  /\ result.out.err = MissingInterpolationData(t)
                  /\ result.out.trace = <<"range_check">>)
           /\ ((t = first \/ t = last) /\ first # NaN /\ last # NaN /\ first <= last)
              => ~(/\ result.out.tag = "Err"
                   /\ result.out.err.kind = "MissingInterpolationData")
           /\ ((t = first \/ t = last) /\ first # NaN /\ last # NaN /\ first > last)
              => (/\ result.out.tag = "Err"
                  /\ result.out.err = MissingInterpolationData(t))

C3_Witness ==
    /\ Evaluated13
    /\ Len(Epochs13) >= 2
    /\ Epochs13[Len(Epochs13)] # NaN
    /\ result.time > Epochs13[Len(Epochs13)]
    /\ result.out.tag = "Err"
    /\ result.out.err = MissingInterpolationData(result.time)

\* C4: constructing a Type 13 set from a buffer of length L >= 3 whose
\* record count n needs more room than the buffer has (6n > L, or
\* 7n > L - 2) returns a malformed-data error; it does not abort.
C4_UndersizedIsMalformedData ==
    (set13.tag # "None" /\ Len(slice) >= 3)
    => LET L == Len(slice)
           n == as_usize(slice[L])
       IN  (STRIDE * n > L \/ STRIDE * n + n > L - 2)
           => (set13.tag = "Err" /\ set13.err.kind = "MalformedData")

\* C5: whenever the Type 13 constructor succeeds on a buffer of length L with
\* trailing record count n, state_data = buffer[0..6n), epoch_data =
\* buffer[6n..7n), epoch_registry = buffer[7n..L-2), and samples is the
\* stored window value plus one.
C5_PartitionInvariant ==
    Built13
    => LET L == Len(slice)
           n == as_usize(slice[L])
       IN  /\ set13.num_records = n
           /\ set13.state_data = [tag |-> "Some", lo |-> 0, hi |-> STRIDE * n]
           /\ set13.epoch_data =
                [tag |-> "Some", lo |-> STRIDE * n, hi |-> STRIDE * n + n]
           /\ set13.epoch_registry =
                [tag |-> "Some", lo |-> STRIDE * n + n, hi |-> L - 2]
           /\ set13.samples = as_usize(slice[L - 1]) + 1

\* the record-access property of C6 for one data view and record count c
RecordBounds(data, c) ==
    LET n == result.n
        out == result.out
    IN  /\ n >= c
           => (/\ out.tag = "Err"
               /\ out.err.kind = "MalformedData"
               /\ c > 0 => out.err.n = (n + 1) * (ViewLen(data) \div c))
        /\ n < c
           => (/\ out.tag = "Ok"
               /\ out.record = StoredRecord(data, ViewLen(data) \div c, n))

\* C6: for a Type 12 or Type 13 set with record count c (0 included),
\* Record(n) with n >= c returns the malformed-data error carrying
\* (n+1)*stride and never aborts; with n < c it returns the six values at
\* n*stride .. (n+1)*stride of the record data.
C6_RecordBounds ==
    /\ (Built12 /\ result.op = "nth_record12")
       => RecordBounds(set12.record_data, set12.num_records)
    /\ (Built13 /\ result.op = "nth_record13")
       => RecordBounds(set13.state_data, set13.num_records)

\* C7: check_integrity of a Type 13 set succeeds exactly when every value of
\* epoch data, epoch registry and state data is finite, and otherwise returns
\* the subnormal integrity error, having scanned epoch data, then the
\* registry, then state data up to the first non-finite value; for a Type 12
\* set it succeeds exactly when every record-data value is finite.
C7_CheckIntegrity ==
    /\ (Built13 /\ result.op = "check_integrity13")
       => LET e == Values(set13.epoch_data)
              r == Values(set13.epoch_registry)
              d == Values(set13.state_data)
              out == result.out
          IN  /\ out.tag = "Ok" <=> (AllFinite(e) /\ AllFinite(r) /\ AllFinite(d))
              /\ out.tag # "Ok"
                 => (/\ out.tag = "Err"
                     /\ out.err = SubNormal
                     /\ out.read =
                          IF ~AllFinite(e) THEN <<FirstNonFinite(e), 0, 0>>
                          ELSE IF ~AllFinite(r)
                          THEN <<Len(e), FirstNonFinite(r), 0>>
                          ELSE <<Len(e), Len(r), FirstNonFinite(d)>>)
    /\ (Built12 /\ result.op = "check_integrity12")
       => LET d == Values(set12.record_data)
              out == result.out
          IN  /\ out.tag = "Ok" <=> AllFinite(d)
              /\ out.tag # "Ok" => (out.tag = "Err" /\ out.err = SubNormal)

C7_Witness ==
    /\ Built13
    /\ result.op = "check_integrity13"
    /\ result.out.tag = "Err"
    /\ set13.num_records >= 2
    /\ AllFinite(Values(set13.epoch_data))
    /\ ~AllFinite(Values(set13.epoch_registry))

\* C8: a buffer shorter than the constructor's minimum is refused with the
\* malformed-data error carrying that minimum, 5 for Type 12 and 3 for
\* Type 13, and a buffer at or above the minimum is not refused for its length.
C8_TooShortCarriesMinimum ==
    /\ (set12.tag # "None" /\ Len(slice) < 5) => set12 = Err(MalformedData(5))
    /\ (set13.tag # "None" /\ Len(slice) < 3) => set13 = Err(MalformedData(3))
    /\ (set12.tag = "Err" /\ Len(slice) >= 5) => set12.err.kind # "MalformedData"
    /\ (set13.tag = "Err" /\ Len(slice) >= 3) => set13.err.kind # "MalformedData"

\* C9: a Type 13 buffer whose stored window value gives more than
\* MAX_SAMPLES samples is refused with an error value by the constructor or
\* by evaluate on a query that misses the stored epochs; nothing aborts.
\* (Stated for the buffers the constructor accepted: evaluate on a miss
\* then has to return an error value.)
C9_OversizedWindowRejected ==
    (Missed /\ set13.samples > MAX_SAMPLES) => result.out.tag = "Err"

\* C10: with strictly ascending epochs and 2 <= s <= n, a query that falls
\* strictly between the epochs of indices i-1 and i is interpolated from a
\* window that holds both: first_idx <= i-1 and i < last_idx.
C10_WindowBracketsQuery ==
    (/\ Missed
     /\ Ascending(Epochs13)
     /\ 2 <= set13.samples /\ set13.samples <= set13.num_records)
    => (/\ result.out.window.computed
        /\ result.out.window.first_idx <= result.out.window.idx - 1
        /\ result.out.window.idx < result.out.window.last_idx)

====
